---- MODULE Spec2Model ----
(***************************************************************************)
(* Model of scripts/process_data.py: the batch pipeline that curates raw   *)
(* purchase events, reconciles them against confirmed purchases and        *)
(* derives the marketing metrics.  A data frame is a sequence of records;  *)
(* the field idx of a record is its pandas index label.  Each try-block of *)
(* the script is one action.  The artifacts of the reports directory       *)
(* outlive a run; Restart starts the script again.  The last part models   *)
(* the POST /earn handler of app/main.py, one action per database          *)
(* round trip of a request.                                                *)
(***************************************************************************)
EXTENDS Integers, Sequences, FiniteSets, TLC

VARIABLES
    data,               \* the input files of the data directory, by name
    pc,                 \* the stage the script is about to run; "done" after
                        \* the last one, "failed" after sys.exit(1)
    error,              \* the error the script logged before sys.exit(1)
    purchases_raw,      \* frame read from purchases_raw.csv (then normalized)
    confirmed,          \* frame read from confirmed_purchases.csv
    purchases,          \* the curated frame
    details,            \* reconciliation detail records
    matched_c_indices,  \* index labels of the claimed confirmed rows
    summary,            \* reconciliation summary counts
    costs,              \* frame read from costs_daily.csv
    sessions,           \* frame read from sessions.csv
    rev_daily,          \* revenue per (date, campaign)
    roas,               \* rev_daily joined with the costs, with the ratio
    d1,                 \* the D-1 date last selected
    anomalies,          \* anomaly records
    arpdau,             \* rev_daily joined with the daily active users
    reports,            \* the artifacts of the reports directory, by file name
    argsort,            \* the order sort_values has given each timestamp
                        \* column it has sorted so far
    zeroed_log,         \* the counts logged by "Zeroed out ... receipts"
    runs,               \* the inputs and artifacts of the finished runs
    for_update,         \* the database engine honours SELECT ... FOR UPDATE
    balance,            \* users.balance of the user, as committed
    row_lock,           \* the request holding the lock of the user's row
    earn                \* the POST /earn requests in flight or answered

service_vars == <<for_update, balance, row_lock, earn>>

script_vars == <<data, pc, error, purchases_raw, confirmed, purchases, details,
                 matched_c_indices, summary, costs, sessions, rev_daily, roas,
                 d1, anomalies, arpdau, reports, argsort, zeroed_log, runs>>

vars == <<data, pc, error, purchases_raw, confirmed, purchases, details,
          matched_c_indices, summary, costs, sessions, rev_daily, roas, d1,
          anomalies, arpdau, reports, argsort, zeroed_log, runs, service_vars>>

----------------------------------------------------------------------------
(* Bounds of the model: the number of rows of the two event inputs.        *)
MaxRaw == 2
MaxConfirmed == 2

(* Generic helpers over sequences.                                         *)
SeqsUpTo(S, n) == UNION {[1..k -> S] : k \in 0..n}

Range(s) == {s[i] : i \in 1..Len(s)}

(* The rows of frame s at the positions keep, in frame order.               *)
RECURSIVE RowsAt(_, _)
RowsAt(s, keep) ==
    IF s = <<>> THEN <<>>
    ELSE LET rest == RowsAt(Tail(s), {i - 1 : i \in keep \ {1}})
         IN  IF 1 \in keep THEN <<Head(s)>> \o rest ELSE rest

(* Record r with column name set to v (a new column, or one replaced).     *)
WithField(r, name, v) == (name :> v) @@ r

----------------------------------------------------------------------------
(* Cell values.  NaN is the missing value pandas gives an empty cell.      *)
NaN == "NaN"

(* Series.astype(str): a missing value becomes the string "nan".           *)
AsTypeStr(v) == IF v = NaN THEN "nan" ELSE v

(* str.replace(",", ".", regex=False) on the revenue strings of the model. *)
ReplaceComma(s) ==
    CASE s = "10,0" -> "10.0"
      [] s = "20,5" -> "20.5"
      [] OTHER -> s

(* pd.to_numeric(errors="coerce").fillna(0.0): the number a string         *)
(* denotes, in tenths of a dollar, and 0 when it denotes none.             *)
ToNumericFillna(s) ==
    CASE s = "10.0" -> 100
      [] s = "20.5" -> 205
      [] s = "0" -> 0
      [] s = "-5.0" -> -50
      [] OTHER -> 0

(* str(float): the text of a revenue held in tenths of a dollar.           *)
FloatStr(x) ==
    CASE x = 100 -> "10.0"
      [] x = 205 -> "20.5"
      [] x = 0 -> "0.0"
      [] x = -50 -> "-5.0"

(* str.strip, str.upper and str.lower on the strings of the model.         *)
StrStrip(s) ==
    CASE s = " Campaign_A " -> "Campaign_A"
      [] s = " CAMPAIGN_A " -> "CAMPAIGN_A"
      [] s = " Campaign_B " -> "Campaign_B"
      [] s = " CAMPAIGN_B " -> "CAMPAIGN_B"
      [] OTHER -> s

StrUpper(s) ==
    CASE s = "Campaign_A" -> "CAMPAIGN_A"
      [] s = " Campaign_A " -> " CAMPAIGN_A "
      [] s = "campaign_a" -> "CAMPAIGN_A"
      [] s = "Campaign_B" -> "CAMPAIGN_B"
      [] s = " Campaign_B " -> " CAMPAIGN_B "
      [] s = "campaign_b" -> "CAMPAIGN_B"
      [] OTHER -> s

StrLower(s) ==
    CASE s = "SUCCESS" -> "success"
      [] s = "Success" -> "success"
      [] s = "Chargeback" -> "chargeback"
      [] s = "CHARGEBACK" -> "chargeback"
      [] s = "Purchase" -> "purchase"
      [] s = "PURCHASE" -> "purchase"
      [] OTHER -> s

(* The timestamp strings of the model in lexicographic order, the order    *)
(* sort_values gives the object column event_time_utc.                     *)
TimeStrings ==
    << "2025-10-20T08:00:00Z", "2025-10-20T08:05:00Z", "2025-10-20T08:10:00Z",
       "2025-10-20T08:21:00Z", "2025-10-21T08:00:00Z", "2025-10-22T08:00:00Z",
       "2025-10-23T08:00:00Z", "2025-10-24T08:00:00Z", "2025-10-25T08:00:00Z",
       "2025-10-26T08:00:00Z", "2025-10-27T08:00:00Z", "2025-10-28T08:00:00Z",
       "not-a-date" >>

TimeRank(s) == CHOOSE i \in 1..Len(TimeStrings) : TimeStrings[i] = s

(* pd.to_datetime(utc=True, errors="coerce"): minutes since                *)
(* 2025-10-20T00:00Z, or NaT for a string that is no timestamp.            *)
NaT == -1

ToDatetime(s) ==
    CASE s = "2025-10-20T08:00:00Z" -> 480
      [] s = "2025-10-20T08:05:00Z" -> 485
      [] s = "2025-10-20T08:10:00Z" -> 490
      [] s = "2025-10-20T08:21:00Z" -> 501
      [] s = "2025-10-21T08:00:00Z" -> 1920
      [] s = "2025-10-22T08:00:00Z" -> 3360
      [] s = "2025-10-23T08:00:00Z" -> 4800
      [] s = "2025-10-24T08:00:00Z" -> 6240
      [] s = "2025-10-25T08:00:00Z" -> 7680
      [] s = "2025-10-26T08:00:00Z" -> 9120
      [] s = "2025-10-27T08:00:00Z" -> 10560
      [] s = "2025-10-28T08:00:00Z" -> 12000
      [] OTHER -> NaT

----------------------------------------------------------------------------
(* Loading: lines 24-65.  A file of the data directory is absent, empty,   *)
(* malformed or ok; an ok file has columns and rows.                       *)
InputFiles ==
    <<"purchases_raw.csv", "confirmed_purchases.csv", "costs_daily.csv",
      "sessions.csv">>

(* read_csv gives a frame the RangeIndex 0..n-1.                           *)
Frame(rows) == [i \in 1..Len(rows) |-> WithField(rows[i], "idx", i - 1)]

(* The columns of the frame read from a file.                              *)
ColumnsOf(file) == data[file].columns

(* The first error of the block: every os.path.exists test comes before    *)
(* the first read_csv.                                                     *)
LoadError ==
    IF \E i \in 1..Len(InputFiles) : data[InputFiles[i]].state = "absent"
    THEN "file_not_found"
    ELSE LET bad == {i \in 1..Len(InputFiles) : data[InputFiles[i]].state # "ok"}
         IN  IF bad = {} THEN "none"
             ELSE data[InputFiles[CHOOSE i \in bad : \A j \in bad : i <= j]].state

Load ==
    /\ pc = "load"
    /\ IF LoadError = "none"
       THEN /\ purchases_raw' = Frame(data["purchases_raw.csv"].rows)
            /\ confirmed' = Frame(data["confirmed_purchases.csv"].rows)
            /\ costs' = Frame(data["costs_daily.csv"].rows)
            /\ sessions' = Frame(data["sessions.csv"].rows)
            /\ pc' = "curate"
            /\ UNCHANGED error
       ELSE /\ pc' = "failed"
            /\ error' = LoadError
            /\ UNCHANGED <<purchases_raw, confirmed, costs, sessions>>
    /\ UNCHANGED <<argsort, zeroed_log, runs, service_vars>>
    /\ UNCHANGED <<data, purchases, details, matched_c_indices, summary,
                   rev_daily, roas, d1, anomalies, arpdau, reports>>

----------------------------------------------------------------------------
(* Curation: lines 67-104.                                                 *)

(* Lines 70-73: revenue parsed, campaign stripped, campaign_norm added.    *)
NormalizeRow(r) ==
    WithField(
        [r EXCEPT !.revenue_usd = ToNumericFillna(ReplaceComma(AsTypeStr(@))),
                  !.campaign = StrStrip(AsTypeStr(@))],
        "campaign_norm", StrUpper(StrStrip(AsTypeStr(r.campaign))))

Normalize(raw) == [i \in 1..Len(raw) |-> NormalizeRow(raw[i])]

(* PassesFilter with the revenue test revenue_usd >= 0.                    *)
PassesFilterNonNegative(r, columns) ==
    /\ ("status" \in columns => StrLower(r.status) = "success")
    /\ ("event_name" \in columns => StrLower(r.event_name) = "purchase")
    /\ r.revenue_usd >= 0

(* Lines 75-80: success status and purchase event when the column exists,  *)
(* and positive revenue.                                                   *)
PassesFilter(r, columns) ==
    /\ ("status" \in columns => StrLower(r.status) = "success")
    /\ ("event_name" \in columns => StrLower(r.event_name) = "purchase")
    /\ r.revenue_usd > 0

FilterPurchases(raw, columns) ==
    RowsAt(raw, {i \in 1..Len(raw) : PassesFilter(raw[i], columns)})

(* Composite without the revenue.                                          *)
CompositeNoRevenue(r) ==
    AsTypeStr(r.appsflyer_id) \o "|" \o AsTypeStr(r.event_time_utc) \o "|"
        \o AsTypeStr(r.event_name)

(* Lines 82-84: the composite key of a row.                                *)
Composite(r) ==
    AsTypeStr(r.appsflyer_id) \o "|" \o AsTypeStr(r.event_time_utc) \o "|"
        \o AsTypeStr(r.event_name) \o "|" \o FloatStr(r.revenue_usd)

WithComposite(rows) ==
    [i \in 1..Len(rows) |-> WithField(rows[i], "composite", Composite(rows[i]))]

(* Line 85, sort_values(["event_time_utc"]): the default kind is quicksort,*)
(* which pandas documents as not stable, so rows with equal timestamps may *)
(* come out in any order.  SortOrders is the set of orders the sort may    *)
(* give: the positions of the rows by rising timestamp, the positions of   *)
(* one timestamp in any order.                                             *)
TieOrders(ties) ==
    {p \in [1..Cardinality(ties) -> ties] :
        \A i, j \in 1..Cardinality(ties) : i # j => p[i] # p[j]}

RECURSIVE SortOrdersFrom(_, _)
SortOrdersFrom(rows, rank) ==
    IF rank > Len(TimeStrings) THEN {<<>>}
    ELSE LET ties == {i \in 1..Len(rows) :
                         TimeRank(rows[i].event_time_utc) = rank}
         IN  {p \o q : p \in TieOrders(ties),
                       q \in SortOrdersFrom(rows, rank + 1)}

SortOrders(rows) == SortOrdersFrom(rows, 1)

SortValues(rows, p) == [i \in 1..Len(rows) |-> rows[p[i]]]

(* Line 85, drop_duplicates(subset=["composite"], keep="first").           *)
DropDuplicates(rows) ==
    RowsAt(rows, {i \in 1..Len(rows) :
                    \A j \in 1..(i - 1) : rows[j].composite # rows[i].composite})

(* ChargebackReceipts taken from the filtered frame instead of the         *)
(* unfiltered batch.                                                       *)
ChargebackReceiptsFiltered(raw) ==
    LET kept == FilterPurchases(raw, {"status", "event_name"})
    IN  {AsTypeStr(kept[i].receipt_id) :
            i \in {k \in 1..Len(kept) : StrLower(kept[k].status) = "chargeback"}}

(* Lines 89-92: receipt ids of the chargeback rows of the unfiltered       *)
(* batch; revenue of the curated rows carrying one of them set to 0.       *)
ChargebackReceipts(raw) ==
    {AsTypeStr(raw[i].receipt_id) :
        i \in {k \in 1..Len(raw) : StrLower(raw[k].status) = "chargeback"}}

ZeroChargebacks(rows, raw, columns) ==
    IF "receipt_id" \in columns /\ "status" \in columns
    THEN [i \in 1..Len(rows) |->
            IF AsTypeStr(rows[i].receipt_id) \in ChargebackReceipts(raw)
            THEN [rows[i] EXCEPT !.revenue_usd = 0]
            ELSE rows[i]]
    ELSE rows

(* The columns the curation block reads without a guard: a missing one     *)
(* raises KeyError.                                                        *)
CurateColumns ==
    {"revenue_usd", "campaign", "appsflyer_id", "event_time_utc", "event_name"}

(* to_csv(index=False): the rows without the index.                        *)
CsvRows(rows) ==
    [i \in 1..Len(rows) |-> [f \in (DOMAIN rows[i]) \ {"idx"} |-> rows[i][f]]]

(* WriteReport that leaves out an artifact without content.                *)
WriteReportNonEmpty(files, name, content) ==
    IF content = <<>> THEN files
    ELSE [f \in (DOMAIN files) \cup {name} |->
             IF f = name THEN content ELSE files[f]]

(* WriteReport that adds the rows to those of the artifact of an earlier   *)
(* run.                                                                    *)
WriteReportAppend(files, name, content) ==
    [f \in (DOMAIN files) \cup {name} |->
        IF f # name THEN files[f]
        ELSE IF name \in DOMAIN files /\ name # "reconciliation.json"
             THEN files[name] \o content
             ELSE content]

(* open(path, "w"): the artifact is created or fully replaced.             *)
WriteReport(files, name, content) ==
    [f \in (DOMAIN files) \cup {name} |->
        IF f = name THEN content ELSE files[f]]

(* numpy sorts without randomness: the order sort_values gives equal       *)
(* timestamps is not specified, but the same column comes out the same     *)
(* way every time.                                                         *)
SortKeys(rows) == [i \in 1..Len(rows) |-> rows[i].event_time_utc]

ArgSorts(rows) ==
    IF SortKeys(rows) \in DOMAIN argsort THEN {argsort[SortKeys(rows)]}
    ELSE SortOrders(rows)

(* Line 93: the number logged is len(bad), the number of receipt ids of    *)
(* the chargeback rows.                                                    *)
ZeroedLogged(raw, columns) ==
    IF "receipt_id" \in columns /\ "status" \in columns
    THEN <<Cardinality(ChargebackReceipts(raw))>>
    ELSE <<>>

Curate ==
    /\ pc = "curate"
    /\ IF CurateColumns \subseteq ColumnsOf("purchases_raw.csv")
       THEN \E p \in ArgSorts(FilterPurchases(Normalize(purchases_raw),
                                              ColumnsOf("purchases_raw.csv"))) :
              LET columns == ColumnsOf("purchases_raw.csv")
                  normalized == Normalize(purchases_raw)
                  filtered == WithComposite(FilterPurchases(normalized, columns))
                  curated == ZeroChargebacks(
                                 DropDuplicates(SortValues(filtered, p)),
                                 normalized, columns)
              IN  /\ purchases_raw' = normalized
                  /\ purchases' = curated
                  /\ reports' = WriteReport(reports, "purchases_curated.csv",
                                             CsvRows(curated))
                  /\ argsort' = (SortKeys(filtered) :> p) @@ argsort
                  /\ zeroed_log' = zeroed_log \o ZeroedLogged(normalized, columns)
                  /\ pc' = "reconcile"
                  /\ UNCHANGED error
       ELSE /\ pc' = "failed"
            /\ error' = "missing_column"
            /\ UNCHANGED <<purchases_raw, purchases, reports, argsort, zeroed_log>>
    /\ UNCHANGED <<runs, service_vars>>
    /\ UNCHANGED <<data, confirmed, details, matched_c_indices, summary,
                   costs, sessions, rev_daily, roas, d1, anomalies, arpdau>>

----------------------------------------------------------------------------
(* Reconciliation: lines 106-178.                                          *)

(* pd.Timedelta(minutes=10), in minutes.                                   *)
Tolerance == 10

(* Lines 109-110: the event_dt column.                                     *)
WithEventDt(rows) ==
    [i \in 1..Len(rows) |->
        WithField(rows[i], "event_dt", ToDatetime(rows[i].event_time_utc))]

(* Series.unique(): the values in order of first appearance.               *)
RECURSIVE Unique(_)
Unique(s) ==
    IF s = <<>> THEN <<>>
    ELSE LET init == Unique(SubSeq(s, 1, Len(s) - 1))
             last == s[Len(s)]
         IN  IF last \in Range(init) THEN init ELSE Append(init, last)

(* groupby("appsflyer_id").get_group(af_id): the rows of the identity, in  *)
(* frame order.                                                            *)
GetGroup(rows, af_id) ==
    RowsAt(rows, {i \in 1..Len(rows) : rows[i].appsflyer_id = af_id})

(* AbsDiff taking NaT for a time like any other.                           *)
AbsDiffOfSentinel(c_dt, p_dt) ==
    IF c_dt >= p_dt THEN c_dt - p_dt ELSE p_dt - c_dt

(* Line 141: (c_group["event_dt"] - p_row["event_dt"]).abs(); a difference *)
(* with NaT on either side is NaT.                                         *)
AbsDiff(c_dt, p_dt) ==
    IF c_dt = NaT \/ p_dt = NaT THEN NaT
    ELSE IF c_dt >= p_dt THEN c_dt - p_dt ELSE p_dt - c_dt

TimeDiffs(c_group, p_row) ==
    [i \in 1..Len(c_group) |-> AbsDiff(c_group[i].event_dt, p_row.event_dt)]

(* Series.min(): the least value that is not NaT, NaT when there is none.  *)
SeriesMin(diffs) ==
    LET valid == {diffs[i] : i \in 1..Len(diffs)} \ {NaT}
    IN  IF valid = {} THEN NaT
        ELSE CHOOSE m \in valid : \A v \in valid : m <= v

(* Series.idxmin() taking the last of several equal minima.                *)
IdxMinLast(diffs) ==
    CHOOSE i \in 1..Len(diffs) :
        /\ diffs[i] = SeriesMin(diffs)
        /\ \A j \in (i + 1)..Len(diffs) : diffs[j] # SeriesMin(diffs)

(* Series.idxmin(): the position of the first row holding the minimum.     *)
IdxMin(diffs) ==
    CHOOSE i \in 1..Len(diffs) :
        /\ diffs[i] = SeriesMin(diffs)
        /\ \A j \in 1..(i - 1) : diffs[j] # SeriesMin(diffs)

AfOnly(af_id, p_row) ==
    [type |-> "af_only", appsflyer_id |-> af_id,
     event_time_utc |-> p_row.event_time_utc, revenue_usd |-> p_row.revenue_usd,
     p_idx |-> p_row.idx]

Matched(af_id, p_row, c_row) ==
    [type |-> "matched", appsflyer_id |-> af_id,
     af_event_time_utc |-> p_row.event_time_utc,
     cf_event_time_utc |-> c_row.event_time_utc,
     revenue_usd |-> p_row.revenue_usd,
     p_idx |-> p_row.idx, c_idx |-> c_row.idx]

ConfirmedOnly(row) ==
    [type |-> "confirmed_only", appsflyer_id |-> row.appsflyer_id,
     event_time_utc |-> row.event_time_utc, revenue_usd |-> row.revenue_usd,
     c_idx |-> row.idx]

(* MatchRow with the tolerance test min_diff >= 10 minutes.                *)
MatchRowExclusive(af_id, p_row, c_group, acc) ==
    LET time_diffs == TimeDiffs(c_group, p_row)
        min_diff == SeriesMin(time_diffs)
    IN  IF min_diff = NaT \/ min_diff >= Tolerance
        THEN [acc EXCEPT !.details = Append(@, AfOnly(af_id, p_row))]
        ELSE LET c_row == c_group[IdxMin(time_diffs)]
             IN  [details |-> Append(acc.details, Matched(af_id, p_row, c_row)),
                  matched_c_indices |-> acc.matched_c_indices \cup {c_row.idx}]

(* Lines 139-154: one curated row against the confirmed rows of its        *)
(* identity.  acc holds details and matched_c_indices.                     *)
MatchRow(af_id, p_row, c_group, acc) ==
    LET time_diffs == TimeDiffs(c_group, p_row)
        min_diff == SeriesMin(time_diffs)
    IN  IF min_diff = NaT \/ min_diff > Tolerance
        THEN [acc EXCEPT !.details = Append(@, AfOnly(af_id, p_row))]
        ELSE LET c_row == c_group[IdxMin(time_diffs)]
             IN  [details |-> Append(acc.details, Matched(af_id, p_row, c_row)),
                  matched_c_indices |-> acc.matched_c_indices \cup {c_row.idx}]

RECURSIVE MatchGroup(_, _, _, _)
MatchGroup(af_id, p_group, c_group, acc) ==
    IF p_group = <<>> THEN acc
    ELSE MatchGroup(af_id, Tail(p_group), c_group,
                    MatchRow(af_id, Head(p_group), c_group, acc))

(* Lines 130-134: an identity without confirmed rows.                      *)
RECURSIVE AllAfOnly(_, _, _)
AllAfOnly(af_id, p_group, acc) ==
    IF p_group = <<>> THEN acc
    ELSE AllAfOnly(af_id, Tail(p_group),
                   [acc EXCEPT !.details = Append(@, AfOnly(af_id, Head(p_group)))])

(* Lines 127-154: the loop over the identities of the curated frame.       *)
RECURSIVE MatchIdentities(_, _, _, _)
MatchIdentities(af_ids, p_rows, c_rows, acc) ==
    IF af_ids = <<>> THEN acc
    ELSE LET af_id == Head(af_ids)
             p_group == GetGroup(p_rows, af_id)
             c_group == GetGroup(c_rows, af_id)
         IN  MatchIdentities(Tail(af_ids), p_rows, c_rows,
                 IF c_group = <<>>
                 THEN AllAfOnly(af_id, p_group, acc)
                 ELSE MatchGroup(af_id, p_group, c_group, acc))

(* UnmatchedConfirmed without the test idx not in matched_c_indices.       *)
RECURSIVE UnmatchedConfirmedAll(_, _)
UnmatchedConfirmedAll(c_rows, acc) ==
    IF c_rows = <<>> THEN acc
    ELSE UnmatchedConfirmedAll(Tail(c_rows),
            [acc EXCEPT !.details = Append(@, ConfirmedOnly(Head(c_rows)))])

(* Lines 157-159: the confirmed rows no curated row claimed.               *)
RECURSIVE UnmatchedConfirmed(_, _)
UnmatchedConfirmed(c_rows, acc) ==
    IF c_rows = <<>> THEN acc
    ELSE UnmatchedConfirmed(Tail(c_rows),
            IF Head(c_rows).idx \notin acc.matched_c_indices
            THEN [acc EXCEPT !.details = Append(@, ConfirmedOnly(Head(c_rows)))]
            ELSE acc)

(* Lines 161-165.                                                          *)
CountType(ds, t) == Cardinality({i \in 1..Len(ds) : ds[i].type = t})

Summary(ds) ==
    [matched |-> CountType(ds, "matched"),
     af_only |-> CountType(ds, "af_only"),
     confirmed_only |-> CountType(ds, "confirmed_only")]

(* Line 170: the detail dictionaries as written; p_idx and c_idx are the   *)
(* loop variables of the same names, kept by the model beside each detail  *)
(* and not part of the artifact.                                           *)
DetailJson(d) ==
    [f \in (DOMAIN d) \ {"p_idx", "c_idx"} |-> d[f]]

(* Lines 119-154: the matching loops alone.                                *)
Matching(p_rows, c_rows) ==
    MatchIdentities(
        Unique([i \in 1..Len(p_rows) |-> p_rows[i].appsflyer_id]),
        p_rows, c_rows,
        [details |-> <<>>, matched_c_indices |-> {}])

(* Line 159 reads revenue_usd of the confirmed frame for the first         *)
(* unmatched confirmed row: without the column that raises KeyError.       *)
UnmatchedKeyError(columns, c_rows, matching) ==
    /\ "revenue_usd" \notin columns
    /\ \E i \in 1..Len(c_rows) : c_rows[i].idx \notin matching.matched_c_indices

Reconcile ==
    /\ pc = "reconcile"
    /\ LET columns == ColumnsOf("confirmed_purchases.csv")
           p_rows == WithEventDt(purchases)
       IN  IF ~({"event_time_utc", "appsflyer_id"} \subseteq columns)
           THEN /\ pc' = "failed"
                /\ error' = "missing_column"
                /\ purchases' = p_rows
                /\ UNCHANGED <<confirmed, details, matched_c_indices, summary,
                               reports>>
           ELSE LET c_rows == WithEventDt(confirmed)
                    matching == Matching(p_rows, c_rows)
                IN  /\ purchases' = p_rows
                    /\ confirmed' = c_rows
                    /\ matched_c_indices' = matching.matched_c_indices
                    /\ IF UnmatchedKeyError(columns, c_rows, matching)
                       THEN /\ pc' = "failed"
                            /\ error' = "missing_column"
                            /\ details' = matching.details
                            /\ UNCHANGED <<summary, reports>>
                       ELSE LET result == UnmatchedConfirmed(c_rows, matching)
                            IN  /\ details' = result.details
                                /\ summary' = Summary(result.details)
                                /\ reports' =
                                      WriteReport(reports, "reconciliation.json",
                                          [summary |-> Summary(result.details),
                                           details |->
                                              [i \in 1..Len(result.details) |->
                                                  DetailJson(result.details[i])]])
                                /\ pc' = "roas"
                                /\ UNCHANGED error
    /\ UNCHANGED <<argsort, zeroed_log, runs, service_vars>>
    /\ UNCHANGED <<data, purchases_raw, costs, sessions, rev_daily, roas, d1,
                   anomalies, arpdau>>

----------------------------------------------------------------------------
(* Floating-point values of the metric frames, as exact fractions n/d with *)
(* d >= 0: 1/0 is inf, -1/0 is -inf and 0/0 is NaN.                        *)
RECURSIVE GCD(_, _)
GCD(a, b) == IF b = 0 THEN a ELSE GCD(b, a % b)

Abs(x) == IF x < 0 THEN -x ELSE x

Sign(x) == IF x < 0 THEN -1 ELSE IF x > 0 THEN 1 ELSE 0

FNaN == [n |-> 0, d |-> 0]

(* The fraction n/d in lowest terms, for any integers n and d.             *)
Frac(n, d) ==
    IF d = 0 THEN [n |-> Sign(n), d |-> 0]
    ELSE LET g == GCD(Abs(n), Abs(d))
         IN  [n |-> (Sign(d) * n) \div g, d |-> Abs(d) \div g]

FromInt(x) == [n |-> x, d |-> 1]

IsFinite(a) == a.d # 0

(* Float division: x/0 is inf or -inf, 0/0 is NaN, NaN spreads.            *)
FDiv(a, b) ==
    IF a = FNaN \/ b = FNaN THEN FNaN
    ELSE IF ~IsFinite(a)
         THEN IF ~IsFinite(b) THEN FNaN
              ELSE [n |-> a.n * (IF b.n < 0 THEN -1 ELSE 1), d |-> 0]
         ELSE IF ~IsFinite(b) THEN FromInt(0)
              ELSE Frac(a.n * b.d, a.d * b.n)

FAdd(a, b) ==
    IF a = FNaN \/ b = FNaN THEN FNaN
    ELSE IF ~IsFinite(a) THEN (IF ~IsFinite(b) /\ b # a THEN FNaN ELSE a)
         ELSE IF ~IsFinite(b) THEN b
              ELSE Frac(a.n * b.d + b.n * a.d, a.d * b.d)

(* a < b on floats: false when either side is NaN.                         *)
FLess(a, b) ==
    IF a = FNaN \/ b = FNaN THEN FALSE
    ELSE IF ~IsFinite(a) THEN a.n < 0 /\ b # a
         ELSE IF ~IsFinite(b) THEN b.n > 0
              ELSE a.n * b.d < b.n * a.d

(* fillna(0.0) that leaves NaN in place.                                   *)
FillNaKeep(a) == a

(* Series.fillna(0.0).                                                     *)
FillNaZero(a) == IF a = FNaN THEN FromInt(0) ELSE a

RECURSIVE FSum(_)
FSum(s) == IF s = <<>> THEN FromInt(0) ELSE FAdd(Head(s), FSum(Tail(s)))

(* Series.mean() of a series without NaN.                                  *)
FMean(s) == FDiv(FSum(s), FromInt(Len(s)))

----------------------------------------------------------------------------
(* ROAS and anomalies: lines 180-244.                                      *)

(* The dates and the campaigns of the model in sorted order.               *)
DateStrings ==
    <<"2025-10-20", "2025-10-21", "2025-10-22", "2025-10-23", "2025-10-24",
      "2025-10-25", "2025-10-26", "2025-10-27", "2025-10-28">>

DateRank(s) == CHOOSE i \in 1..Len(DateStrings) : DateStrings[i] = s

CampaignStrings == <<"CAMPAIGN_A", "CAMPAIGN_B">>

CampaignRank(s) == CHOOSE i \in 1..Len(CampaignStrings) : CampaignStrings[i] = s

(* dt.strftime("%Y-%m-%d") of a time in minutes: NaN for NaT.              *)
StrfDate(dt) == IF dt = NaT THEN NaN ELSE DateStrings[(dt \div 1440) + 1]

(* Line 183: the date column of the curated frame.                         *)
WithDate(rows) ==
    [i \in 1..Len(rows) |-> WithField(rows[i], "date", StrfDate(rows[i].event_dt))]

(* The elements of a set of (date, campaign) keys in sorted order.         *)
KeyLess(a, b) ==
    \/ DateRank(a[1]) < DateRank(b[1])
    \/ a[1] = b[1] /\ CampaignRank(a[2]) < CampaignRank(b[2])

SortedKeys(keys) ==
    [i \in 1..Cardinality(keys) |->
        CHOOSE k \in keys : Cardinality({m \in keys : KeyLess(m, k)}) = i - 1]

RECURSIVE SumRevenue(_)
SumRevenue(rows) ==
    IF rows = <<>> THEN 0 ELSE Head(rows).revenue_usd + SumRevenue(Tail(rows))

(* Line 184: groupby(["date", "campaign_norm"]) with the revenue summed;   *)
(* rows without a date are in no group, and the groups come sorted.        *)
RevDaily(rows) ==
    LET dated == {i \in 1..Len(rows) : rows[i].date # NaN}
        keys == SortedKeys({<<rows[i].date, rows[i].campaign_norm>> : i \in dated})
    IN  [k \in 1..Len(keys) |->
            [date |-> keys[k][1], campaign |-> keys[k][2],
             revenue_usd |->
                SumRevenue(RowsAt(rows,
                    {i \in dated : <<rows[i].date, rows[i].campaign_norm>> = keys[k]}))]]

(* Line 187: the campaign of the cost rows upper-cased, then stripped.     *)
NormalizeCosts(rows) ==
    [i \in 1..Len(rows) |->
        [rows[i] EXCEPT !.campaign = StrStrip(StrUpper(@))]]

(* RoasRow with the ratio ad cost over revenue.                            *)
RoasRowInverse(rev_row, ad_cost) ==
    [date |-> rev_row.date, campaign |-> rev_row.campaign,
     revenue_usd |-> rev_row.revenue_usd, ad_cost_usd |-> ad_cost,
     roas |-> FillNaZero(FDiv(ad_cost, FromInt(rev_row.revenue_usd)))]

(* Line 189: revenue over ad cost, NaN replaced by 0.                      *)
RoasRow(rev_row, ad_cost) ==
    [date |-> rev_row.date, campaign |-> rev_row.campaign,
     revenue_usd |-> rev_row.revenue_usd, ad_cost_usd |-> ad_cost,
     roas |-> FillNaZero(FDiv(FromInt(rev_row.revenue_usd), ad_cost))]

(* Line 188: left join on (date, campaign): a revenue row gives one row    *)
(* per cost row of its key, and one row without ad cost when there is none.*)
RECURSIVE MergeCosts(_, _)
MergeCosts(rev, c_rows) ==
    IF rev = <<>> THEN <<>>
    ELSE LET r == Head(rev)
             hits == RowsAt(c_rows,
                        {i \in 1..Len(c_rows) : /\ c_rows[i].date = r.date
                                                /\ c_rows[i].campaign = r.campaign})
         IN  (IF hits = <<>> THEN <<RoasRow(r, FNaN)>>
              ELSE [i \in 1..Len(hits) |->
                       RoasRow(r, FromInt(hits[i].ad_cost_usd))])
             \o MergeCosts(Tail(rev), c_rows)

(* Lines 197-198: the second most recent date, or the only one.            *)
SortedDates(rows) ==
    LET dates == {rows[i].date : i \in 1..Len(rows)}
    IN  [i \in 1..Cardinality(dates) |->
            CHOOSE x \in dates :
                Cardinality({y \in dates : DateRank(y) < DateRank(x)}) = i - 1]

(* SelectD1 taking the most recent date.                                   *)
SelectD1Latest(rows) ==
    LET dates_sorted == SortedDates(rows)
    IN  dates_sorted[Len(dates_sorted)]

SelectD1(rows) ==
    LET dates_sorted == SortedDates(rows)
    IN  IF Len(dates_sorted) >= 2 THEN dates_sorted[Len(dates_sorted) - 1]
        ELSE dates_sorted[Len(dates_sorted)]

RowsOfDate(rows, d) == RowsAt(rows, {i \in 1..Len(rows) : rows[i].date = d})

(* Line 214: the length of the trailing window, in dates.                  *)
Window == 7

(* Avg7 over every date of the campaign up to d.                           *)
Avg7NoWindow(rows, d, camp) ==
    LET camp_hist == RowsAt(rows,
                        {i \in 1..Len(rows) : /\ DateRank(rows[i].date) <= DateRank(d)
                                              /\ rows[i].campaign = camp})
    IN  IF camp_hist = <<>> THEN FromInt(0)
        ELSE FMean([i \in 1..Len(camp_hist) |-> camp_hist[i].roas])

(* Lines 212-216: the mean ROAS of a campaign over its last Window dates   *)
(* up to d.                                                                *)
Avg7(rows, d, camp) ==
    LET camp_hist == RowsAt(rows,
                        {i \in 1..Len(rows) : /\ DateRank(rows[i].date) <= DateRank(d)
                                              /\ rows[i].campaign = camp})
        hist_dates == SortedDates(camp_hist)
        last7_dates == {hist_dates[i] :
                           i \in {k \in 1..Len(hist_dates) : k > Len(hist_dates) - Window}}
        last7 == RowsAt(camp_hist,
                    {i \in 1..Len(camp_hist) : camp_hist[i].date \in last7_dates})
    IN  IF last7 = <<>> THEN FromInt(0)
        ELSE FMean([i \in 1..Len(last7) |-> last7[i].roas])

(* AnomalyRecord without the test avg7 > 0.                                *)
AnomalyRecordNoGuard(rows, d, camp) ==
    LET val == RowsAt(rows, {i \in 1..Len(rows) : /\ rows[i].date = d
                                                  /\ rows[i].campaign = camp})[1].roas
        avg7 == Avg7(rows, d, camp)
    IN  [date |-> d, campaign |-> camp, roas_d1 |-> val, avg7 |-> avg7,
         anomaly |-> FLess(val, FDiv(avg7, FromInt(2)))]

(* Line 220: the anomaly record of a campaign with one row on d.           *)
AnomalyRecord(rows, d, camp) ==
    LET val == RowsAt(rows, {i \in 1..Len(rows) : /\ rows[i].date = d
                                                  /\ rows[i].campaign = camp})[1].roas
        avg7 == Avg7(rows, d, camp)
    IN  [date |-> d, campaign |-> camp, roas_d1 |-> val, avg7 |-> avg7,
         anomaly |-> IF FLess(FromInt(0), avg7)
                     THEN FLess(val, FDiv(avg7, FromInt(2)))
                     ELSE FALSE]

(* The campaigns with a row on d, in order of first appearance in rows.    *)
CampaignsOn(rows, d) ==
    LET camps == Unique([i \in 1..Len(rows) |-> rows[i].campaign])
    IN  RowsAt(camps, {k \in 1..Len(camps) :
                          \E i \in 1..Len(rows) : /\ rows[i].date = d
                                                  /\ rows[i].campaign = camps[k]})

(* A record for every campaign with a row on d or before it; a campaign    *)
(* without a row on d has roas_d1 0.                                       *)
AnomaliesAllCampaigns(rows, d) ==
    LET all == Unique([i \in 1..Len(rows) |-> rows[i].campaign])
        camps == RowsAt(all, {k \in 1..Len(all) :
                                \E i \in 1..Len(rows) :
                                    /\ DateRank(rows[i].date) <= DateRank(d)
                                    /\ rows[i].campaign = all[k]})
    IN  [k \in 1..Len(camps) |->
            IF \E i \in 1..Len(rows) : rows[i].date = d /\ rows[i].campaign = camps[k]
            THEN AnomalyRecord(rows, d, camps[k])
            ELSE [date |-> d, campaign |-> camps[k], roas_d1 |-> FromInt(0),
                  avg7 |-> Avg7(rows, d, camps[k]),
                  anomaly |-> FLess(FromInt(0), Avg7(rows, d, camps[k]))]]

(* Lines 208-220: one record for every campaign with a row on d.           *)
Anomalies(rows, d) ==
    LET camps == CampaignsOn(rows, d)
    IN  [k \in 1..Len(camps) |-> AnomalyRecord(rows, d, camps[k])]

(* Line 219: float() of the ROAS of a campaign with several rows on d      *)
(* raises TypeError.                                                       *)
AnomalyRaises(rows, d) ==
    \E i, j \in 1..Len(rows) :
        /\ i # j
        /\ rows[i].date = d /\ rows[j].date = d
        /\ rows[i].campaign = rows[j].campaign

(* to_json(orient="records"): NaN, inf and -inf are written as null.       *)
JsonNull == [null |-> TRUE]

JsonFloat(a) == IF IsFinite(a) THEN a ELSE JsonNull

RoasJson(rows) ==
    [i \in 1..Len(rows) |->
        [rows[i] EXCEPT !.ad_cost_usd = JsonFloat(@), !.roas = JsonFloat(@)]]

RoasBlock(on_error) ==
    /\ pc = "roas"
    /\ LET columns == ColumnsOf("costs_daily.csv")
           p_rows == WithDate(purchases)
           rev == RevDaily(p_rows)
       IN  /\ purchases' = p_rows
           /\ rev_daily' = rev
           /\ IF ~({"campaign", "date", "ad_cost_usd"} \subseteq columns)
              THEN /\ pc' = on_error
                   /\ error' = "missing_column"
                   /\ costs' = IF "campaign" \in columns
                               THEN NormalizeCosts(costs) ELSE costs
                   /\ UNCHANGED <<roas, d1, anomalies, reports>>
              ELSE LET c_rows == NormalizeCosts(costs)
                       merged == MergeCosts(rev, c_rows)
                   IN  /\ costs' = c_rows
                       /\ roas' = merged
                       /\ IF merged = <<>>
                          THEN /\ reports' =
                                    WriteReport(
                                        WriteReport(reports, "roas_d1.json", <<>>),
                                        "roas_anomaly.json", <<>>)
                               /\ pc' = "arpdau"
                               /\ UNCHANGED <<d1, anomalies, error>>
                          ELSE /\ d1' = SelectD1(merged)
                               /\ IF AnomalyRaises(merged, SelectD1(merged))
                                  THEN /\ pc' = on_error
                                       /\ error' = "exception"
                                       /\ UNCHANGED <<anomalies, reports>>
                                  ELSE /\ anomalies' =
                                            Anomalies(merged, SelectD1(merged))
                                       /\ reports' =
                                            WriteReport(
                                                WriteReport(reports, "roas_d1.json",
                                                    RoasJson(RowsOfDate(merged,
                                                        SelectD1(merged)))),
                                                "roas_anomaly.json",
                                                Anomalies(merged, SelectD1(merged)))
                                       /\ pc' = "arpdau"
                                       /\ UNCHANGED error
    /\ UNCHANGED <<argsort, zeroed_log, runs, service_vars>>
    /\ UNCHANGED <<data, purchases_raw, confirmed, details, matched_c_indices,
                   summary, sessions, arpdau>>

(* The block with handlers that log the exception and go on to the next    *)
(* stage.                                                                  *)
RoasLogsOnly == RoasBlock("arpdau")

(* except KeyError / except Exception: sys.exit(1).                        *)
Roas == RoasBlock("failed")

----------------------------------------------------------------------------
(* ARPDAU: lines 246-288.                                                  *)

(* Line 249: the date column of the session frame.                         *)
WithSessionDate(rows) ==
    [i \in 1..Len(rows) |->
        WithField(rows[i], "date", StrfDate(ToDatetime(rows[i].event_timestamp_utc)))]

(* Dau counting the sessions of a date instead of its distinct users.      *)
DauSessions(rows) ==
    LET dates == SortedDates(RowsAt(rows, {i \in 1..Len(rows) : rows[i].date # NaN}))
    IN  [k \in 1..Len(dates) |->
            [date |-> dates[k],
             dau |-> Cardinality({j \in 1..Len(rows) : /\ rows[j].date = dates[k]
                                                       /\ rows[j].user_id # NaN})]]

(* Line 256: distinct users per date; sessions without a date are in no    *)
(* group and a missing user_id is not counted.                             *)
Dau(rows) ==
    LET dates == SortedDates(RowsAt(rows, {i \in 1..Len(rows) : rows[i].date # NaN}))
    IN  [k \in 1..Len(dates) |->
            [date |-> dates[k],
             dau |-> Cardinality({rows[i].user_id :
                        i \in {j \in 1..Len(rows) : /\ rows[j].date = dates[k]
                                                    /\ rows[j].user_id # NaN}})]]

(* Lines 259-261: revenue rows joined with the users of their date.        *)
ArpdauRow(rev_row, dau) ==
    [date |-> rev_row.date, campaign |-> rev_row.campaign,
     revenue |-> rev_row.revenue_usd, dau |-> dau,
     arpdau |-> FillNaZero(FDiv(FromInt(rev_row.revenue_usd), dau))]

(* The merge as an inner join: revenue rows of a date without sessions are *)
(* dropped.                                                                *)
MergeDauInner(rev, dau) ==
    LET keep == RowsAt(rev, {i \in 1..Len(rev) : RowsOfDate(dau, rev[i].date) # <<>>})
    IN  [i \in 1..Len(keep) |->
            ArpdauRow(keep[i], FromInt(RowsOfDate(dau, keep[i].date)[1].dau))]

MergeDau(rev, dau) ==
    [i \in 1..Len(rev) |->
        LET hits == RowsOfDate(dau, rev[i].date)
        IN  ArpdauRow(rev[i],
                IF hits = <<>> THEN FNaN ELSE FromInt(hits[1].dau))]

ArpdauJson(rows) ==
    [i \in 1..Len(rows) |->
        [rows[i] EXCEPT !.dau = JsonFloat(@), !.arpdau = JsonFloat(@)]]

Arpdau ==
    /\ pc = "arpdau"
    /\ LET columns == ColumnsOf("sessions.csv")
       IN  IF "event_timestamp_utc" \notin columns
           THEN /\ pc' = "failed"
                /\ error' = "missing_column"
                /\ UNCHANGED <<sessions, arpdau, d1, reports>>
           ELSE /\ sessions' = WithSessionDate(sessions)
                /\ IF "user_id" \notin columns
                   THEN /\ pc' = "failed"
                        /\ error' = "missing_column"
                        /\ UNCHANGED <<arpdau, d1, reports>>
                   ELSE LET merged == MergeDau(rev_daily,
                                         Dau(WithSessionDate(sessions)))
                        IN  /\ arpdau' = merged
                            /\ IF merged = <<>>
                               THEN /\ reports' =
                                         WriteReport(reports, "arpdau_d1.json", <<>>)
                                    /\ UNCHANGED d1
                               ELSE /\ d1' = SelectD1(merged)
                                    /\ reports' =
                                         WriteReport(reports, "arpdau_d1.json",
                                             ArpdauJson(RowsOfDate(merged,
                                                 SelectD1(merged))))
                            /\ pc' = "done"
                            /\ UNCHANGED error
    /\ UNCHANGED <<argsort, zeroed_log, runs, service_vars>>
    /\ UNCHANGED <<data, purchases_raw, confirmed, purchases, details,
                   matched_c_indices, summary, costs, rev_daily, roas, anomalies>>

----------------------------------------------------------------------------
(* Inputs.                                                                 *)
PurchaseColumns ==
    {"appsflyer_id", "event_time_utc", "event_name", "revenue_usd", "campaign",
     "status", "receipt_id"}

RawRow(af, t, ev, rev, st, rc) ==
    [appsflyer_id |-> af, event_time_utc |-> t, event_name |-> ev,
     revenue_usd |-> rev, campaign |-> " Campaign_A ", status |-> st,
     receipt_id |-> rc]

ConfirmedRow(af, t) ==
    [appsflyer_id |-> af, event_time_utc |-> t, revenue_usd |-> 100]

OkFile(columns, rows) == [state |-> "ok", columns |-> columns, rows |-> rows]

(* A row without the cells of the columns the file does not have.          *)
Project(r, columns) == [f \in (DOMAIN r) \cap columns |-> r[f]]

PurchasesFile(columns, rows) ==
    OkFile(columns, [i \in 1..Len(rows) |-> Project(rows[i], columns)])

ConfirmedFile(rows) ==
    OkFile({"appsflyer_id", "event_time_utc", "revenue_usd"}, rows)

CostRow(date, campaign, ad_cost) ==
    [date |-> date, campaign |-> campaign, ad_cost_usd |-> ad_cost]

CostsFile(rows) == OkFile({"date", "campaign", "ad_cost_usd"}, rows)

SessionRow(t, user) == [event_timestamp_utc |-> t, user_id |-> user]

SessionsFile(rows) == OkFile({"event_timestamp_utc", "user_id"}, rows)

(* The four input files of a run.                                          *)
DataDir(purchases_file, confirmed_file, costs_file, sessions_file) ==
    [f \in Range(InputFiles) |->
        CASE f = "purchases_raw.csv" -> purchases_file
          [] f = "confirmed_purchases.csv" -> confirmed_file
          [] f = "costs_daily.csv" -> costs_file
          [] f = "sessions.csv" -> sessions_file]

(* The cost and session inputs of the runs that vary the event inputs.     *)
SampleCosts ==
    <<CostRow("2025-10-20", " Campaign_A ", 1000),
      CostRow("2025-10-20", "Campaign_B", 2000)>>

SampleSessions ==
    <<SessionRow("2025-10-20T08:00:00Z", "u1"),
      SessionRow("2025-10-20T08:05:00Z", "u1"),
      SessionRow("2025-10-20T08:10:00Z", "u2"),
      SessionRow("not-a-date", "u3")>>

(* The service without a request.                                          *)
ServiceIdle ==
    /\ for_update = TRUE
    /\ balance = 0
    /\ row_lock = 0
    /\ earn = <<>>

(* The state of the script before its first statement of its first run.    *)
ScriptIdle ==
    /\ argsort = <<>>
    /\ zeroed_log = <<>>
    /\ runs = <<>>
    /\ pc = "load"
    /\ error = "none"
    /\ purchases_raw = <<>>
    /\ confirmed = <<>>
    /\ purchases = <<>>
    /\ details = <<>>
    /\ matched_c_indices = {}
    /\ summary = [matched |-> 0, af_only |-> 0, confirmed_only |-> 0]
    /\ costs = <<>>
    /\ sessions = <<>>
    /\ rev_daily = <<>>
    /\ roas = <<>>
    /\ d1 = NaN
    /\ anomalies = <<>>
    /\ arpdau = <<>>
    /\ reports = <<>>

InitRun ==
    /\ ServiceIdle
    /\ ScriptIdle

(* Inputs for the reconciliation: successful purchases that differ in      *)
(* identity and time, against confirmed records of the same identities.    *)
ReconRawRows ==
    {RawRow("af_001", "2025-10-20T08:05:00Z", "purchase", "10.0", "success", NaN),
     RawRow("af_001", "2025-10-20T08:10:00Z", "purchase", "10.0", "success", NaN),
     RawRow("af_001", "not-a-date", "purchase", "10.0", "success", NaN),
     RawRow("af_002", "2025-10-20T08:10:00Z", "purchase", "10,0", "SUCCESS", NaN)}

ReconConfirmedRows ==
    {ConfirmedRow("af_001", "2025-10-20T08:00:00Z"),
     ConfirmedRow("af_001", "2025-10-20T08:10:00Z"),
     ConfirmedRow("af_001", "2025-10-20T08:21:00Z"),
     ConfirmedRow("af_001", "not-a-date"),
     ConfirmedRow("af_002", "2025-10-20T08:10:00Z")}

Init ==
    /\ InitRun
    /\ \E raw \in SeqsUpTo(ReconRawRows, MaxRaw) :
       \E cf \in SeqsUpTo(ReconConfirmedRows, MaxConfirmed) :
          data = DataDir(PurchasesFile(PurchaseColumns, raw), ConfirmedFile(cf),
                         CostsFile(SampleCosts), SessionsFile(SampleSessions))

(* Inputs for the curation: raw rows that differ in status, event name,    *)
(* revenue text and receipt id, with and without the receipt_id column.    *)
CurateRawRows ==
    {RawRow("af_001", "2025-10-20T08:05:00Z", "purchase", "10.0", "success", "r1"),
     RawRow("af_001", "2025-10-20T08:05:00Z", "purchase", "10,0", "SUCCESS", NaN),
     RawRow("af_001", "2025-10-20T08:05:00Z", "Purchase", "10.0", "success", "r2"),
     RawRow("af_001", "2025-10-20T08:00:00Z", "purchase", "20,5", "success", "r2"),
     RawRow("af_001", "2025-10-20T08:05:00Z", "purchase", "20.5", "success", "r1"),
     RawRow("af_001", "2025-10-20T08:05:00Z", "purchase", "10.0", "chargeback", "r1"),
     RawRow("af_001", "2025-10-20T08:10:00Z", "purchase", "10.0", "Chargeback", NaN),
     RawRow("af_001", "2025-10-20T08:05:00Z", "purchase", "abc", "success", "r1"),
     RawRow("af_001", "2025-10-20T08:05:00Z", "purchase", "-5.0", "success", "r2"),
     RawRow("af_001", "2025-10-20T08:05:00Z", "login", "10.0", "success", "r1"),
     RawRow("af_001", "2025-10-20T08:05:00Z", "purchase", "10.0", "failed", "r2"),
     RawRow("af_001", "not-a-date", "purchase", "10.0", "success", "r1")}

CurateConfirmedRows == {ConfirmedRow("af_001", "2025-10-20T08:00:00Z")}

InitCurate ==
    /\ InitRun
    /\ \E raw \in SeqsUpTo(CurateRawRows, MaxRaw) :
       \E cf \in SeqsUpTo(CurateConfirmedRows, MaxConfirmed) :
       \E columns \in {PurchaseColumns, PurchaseColumns \ {"receipt_id"}} :
          data = DataDir(PurchasesFile(columns, raw), ConfirmedFile(cf),
                         CostsFile(SampleCosts), SessionsFile(SampleSessions))

(* Inputs for the metrics: successful purchases that differ in date,       *)
(* campaign spelling and revenue, against cost tables and session logs     *)
(* that are complete, partial, empty, zero or negative, or hold one        *)
(* (date, campaign) pair twice.  Ad cost is in tenths of a dollar, like    *)
(* revenue.                                                                *)
MetricRow(af, t, rev, campaign) ==
    [RawRow(af, t, "purchase", rev, "success", NaN) EXCEPT !.campaign = campaign]

MetricRawRows ==
    {MetricRow("af_001", "2025-10-20T08:00:00Z", "10.0", " Campaign_A "),
     MetricRow("af_002", "2025-10-20T08:05:00Z", "10.0", "campaign_a"),
     MetricRow("af_001", "2025-10-21T08:00:00Z", "20.5", " Campaign_A "),
     MetricRow("af_001", "2025-10-21T08:00:00Z", "10.0", "Campaign_B"),
     MetricRow("af_001", "2025-10-22T08:00:00Z", "10,0", " Campaign_A ")}

MetricCosts ==
    {<<CostRow("2025-10-20", " Campaign_A ", 100),
       CostRow("2025-10-21", "campaign_a", 1000),
       CostRow("2025-10-21", "Campaign_B", 2000),
       CostRow("2025-10-22", "Campaign_A", 500)>>,
     SampleCosts,
     <<CostRow("2025-10-20", "Campaign_A", 0),
       CostRow("2025-10-21", "Campaign_A", -1000),
       CostRow("2025-10-21", "Campaign_B", 0)>>,
     <<CostRow("2025-10-20", "Campaign_A", 1000),
       CostRow("2025-10-20", "campaign_a", 2000)>>,
     <<>>}

MetricSessions ==
    {SampleSessions,
     <<SessionRow("2025-10-21T08:00:00Z", "u1"),
       SessionRow("2025-10-21T08:00:00Z", NaN),
       SessionRow("2025-10-22T08:00:00Z", NaN)>>,
     <<>>}

MaxMetricRows == 3

InitMetrics ==
    /\ InitRun
    /\ \E raw \in SeqsUpTo(MetricRawRows, MaxMetricRows) :
       \E c_rows \in MetricCosts :
       \E s_rows \in MetricSessions :
          data = DataDir(PurchasesFile(PurchaseColumns, raw),
                         ConfirmedFile(<<ConfirmedRow("af_001", "2025-10-20T08:00:00Z")>>),
                         CostsFile(c_rows), SessionsFile(s_rows))

(* Inputs for the trailing window: campaign A with one purchase on each    *)
(* date of any set of dates, every date at a different ad cost, and        *)
(* further rows of either campaign.                                        *)
WindowRow(k, rev, campaign) ==
    MetricRow("af_001", DateStrings[k] \o "T08:00:00Z", rev, campaign)

RECURSIVE WindowRows(_, _)
WindowRows(days, k) ==
    IF k > Len(DateStrings) THEN <<>>
    ELSE (IF k \in days THEN <<WindowRow(k, "10.0", "Campaign_A")>> ELSE <<>>)
         \o WindowRows(days, k + 1)

WindowExtraRows ==
    {<<>>,
     <<WindowRow(3, "20.5", "Campaign_B")>>,
     <<WindowRow(8, "20.5", "Campaign_B"), WindowRow(9, "10.0", "Campaign_B")>>,
     <<WindowRow(3, "20.5", "Campaign_B"), WindowRow(8, "20.5", "Campaign_B")>>,
     <<WindowRow(Len(DateStrings), "20.5", "Campaign_A")>>}

WindowCosts ==
    [k \in 1..Len(DateStrings) |-> CostRow(DateStrings[k], "Campaign_A", 100 * k)]
    \o <<CostRow(DateStrings[3], "Campaign_B", 1000),
         CostRow(DateStrings[8], "Campaign_B", -1000)>>

InitWindow ==
    /\ InitRun
    /\ \E days \in SUBSET (1..Len(DateStrings)) :
       \E extra \in WindowExtraRows :
          data = DataDir(PurchasesFile(PurchaseColumns, WindowRows(days, 1) \o extra),
                         ConfirmedFile(<<>>),
                         CostsFile(WindowCosts), SessionsFile(SampleSessions))

(* Inputs for the failures: every file absent, empty, malformed or ok, and *)
(* every ok file with all of its columns or without one of them.           *)
FileStates == {"ok", "absent", "empty", "malformed"}

(* A file read_csv gets no frame from.                                     *)
BadFile(state) == [state |-> state, columns |-> {}, rows |-> <<>>]

(* A file without one of its columns; the file itself for any other name.  *)
Without(file, column) ==
    OkFile(file.columns \ {column},
           [i \in 1..Len(file.rows) |-> Project(file.rows[i], file.columns \ {column})])

InputRawBatches ==
    {<<>>,
     <<RawRow("af_001", "2025-10-20T08:05:00Z", "purchase", "10.0", "success", "r1")>>}

InputConfirmedBatches ==
    {<<>>,
     <<ConfirmedRow("af_001", "2025-10-20T08:00:00Z")>>,
     <<ConfirmedRow("af_002", "2025-10-20T08:00:00Z")>>}

SoundDir(raw, cf) ==
    DataDir(PurchasesFile(PurchaseColumns, raw), ConfirmedFile(cf),
            CostsFile(SampleCosts), SessionsFile(SampleSessions))

InitInputs ==
    /\ InitRun
    /\ \E raw \in InputRawBatches :
       \E cf \in InputConfirmedBatches :
          \/ \E states \in [Range(InputFiles) -> FileStates] :
                data = [f \in Range(InputFiles) |->
                           IF states[f] = "ok" THEN SoundDir(raw, cf)[f]
                           ELSE BadFile(states[f])]
          \/ \E p_col \in SoundDir(raw, cf)["purchases_raw.csv"].columns \cup {"none"} :
             \E cf_col \in SoundDir(raw, cf)["confirmed_purchases.csv"].columns \cup {"none"} :
             \E c_col \in SoundDir(raw, cf)["costs_daily.csv"].columns \cup {"none"} :
             \E s_col \in SoundDir(raw, cf)["sessions.csv"].columns \cup {"none"} :
                data = DataDir(Without(SoundDir(raw, cf)["purchases_raw.csv"], p_col),
                               Without(SoundDir(raw, cf)["confirmed_purchases.csv"], cf_col),
                               Without(SoundDir(raw, cf)["costs_daily.csv"], c_col),
                               Without(SoundDir(raw, cf)["sessions.csv"], s_col))

(* Inputs for runs that follow one another: a batch with two rows of one   *)
(* composite key, a batch of another day and campaign, and no batch.       *)
RerunInputs ==
    {SoundDir(<<RawRow("af_001", "2025-10-20T08:05:00Z", "purchase", "10.0", "success", "r1"),
                RawRow("af_001", "2025-10-20T08:05:00Z", "purchase", "10.0", "success", "r2")>>,
              <<ConfirmedRow("af_001", "2025-10-20T08:00:00Z")>>),
     SoundDir(<<MetricRow("af_002", "2025-10-21T08:00:00Z", "20.5", "Campaign_B"),
                MetricRow("af_002", "2025-10-20T08:00:00Z", "10.0", "Campaign_B")>>,
              <<>>),
     SoundDir(<<>>, <<>>)}

InitRerun ==
    /\ InitRun
    /\ data \in RerunInputs

(* The number of runs of the script on one reports directory.              *)
MaxRuns == 3

(* POST /run-pipeline once more, after the data directory was or was not   *)
(* replaced: a new process with the reports directory of the last one.     *)
Restart ==
    /\ pc \in {"done", "failed"}
    /\ Len(runs) < MaxRuns - 1
    /\ runs' = Append(runs, [data |-> data, ok |-> pc = "done", reports |-> reports])
    /\ data' \in RerunInputs
    /\ pc' = "load"
    /\ error' = "none"
    /\ purchases_raw' = <<>>
    /\ confirmed' = <<>>
    /\ purchases' = <<>>
    /\ details' = <<>>
    /\ matched_c_indices' = {}
    /\ summary' = [matched |-> 0, af_only |-> 0, confirmed_only |-> 0]
    /\ costs' = <<>>
    /\ sessions' = <<>>
    /\ rev_daily' = <<>>
    /\ roas' = <<>>
    /\ d1' = NaN
    /\ anomalies' = <<>>
    /\ arpdau' = <<>>
    /\ zeroed_log' = <<>>
    /\ UNCHANGED <<reports, argsort, service_vars>>

-----------------------------------------------------------------------------
(* POST /earn.  Each request runs in a thread of the server's pool with a  *)
(* database session of its own; between the SELECT of the user's row and   *)
(* the commit of the new balance other requests may run.                   *)

(* The number of requests of the user.                                     *)
MaxEarn == 2

Amounts == {10, 20}

(* The Idempotency-Key header of a request, "none" when it has none.       *)
IdempotencyKeys == {"none", "k1"}

EarnRequest(amount, key) ==
    [amount |-> amount, key |-> key, at |-> "received", read |-> 0,
     status |-> 0, response |-> 0]

(* db.query(User).filter_by(user_id=uid).with_for_update().first(): the    *)
(* row as committed; an engine that honours FOR UPDATE makes the request   *)
(* wait until no other request holds the row.                              *)
EarnSelect(r) ==
    /\ earn[r].at = "received"
    /\ for_update => row_lock = 0
    /\ row_lock' = IF for_update THEN r ELSE row_lock
    /\ earn' = [earn EXCEPT ![r].at = "selected", ![r].read = balance]
    /\ UNCHANGED <<for_update, balance, script_vars>>

(* u.balance += body.amount; db.commit(): UPDATE users SET balance = the   *)
(* value computed from the row that was read, and the 200 response.        *)
EarnCommit(r) ==
    /\ earn[r].at = "selected"
    /\ balance' = earn[r].read + earn[r].amount
    /\ row_lock' = IF row_lock = r THEN 0 ELSE row_lock
    /\ earn' = [earn EXCEPT ![r].at = "answered", ![r].status = 200,
                            ![r].response = earn[r].read + earn[r].amount]
    /\ UNCHANGED <<for_update, script_vars>>

(* except SQLAlchemyError: the commit finds the database locked by the     *)
(* write of another request; rollback and the 500 response.                *)
EarnFail(r) ==
    /\ earn[r].at = "selected"
    /\ ~for_update
    /\ \E o \in DOMAIN earn : o # r /\ earn[o].at = "selected"
    /\ earn' = [earn EXCEPT ![r].at = "answered", ![r].status = 500]
    /\ UNCHANGED <<for_update, balance, row_lock, script_vars>>

(* The user exists with balance 0 after login; the engine is SQLite (the   *)
(* default DATABASE_URL), which has no FOR UPDATE, or one that honours it. *)
InitApi ==
    /\ ScriptIdle
    /\ data = SoundDir(<<>>, <<>>)
    /\ for_update \in BOOLEAN
    /\ balance = 0
    /\ row_lock = 0
    /\ \E n \in 1..MaxEarn :
          earn \in [1..n -> {EarnRequest(a, k) : a \in Amounts, k \in IdempotencyKeys}]

NextApi ==
    \/ \E r \in DOMAIN earn : EarnSelect(r)
    \/ \E r \in DOMAIN earn : EarnCommit(r)
    \/ \E r \in DOMAIN earn : EarnFail(r)

Next == Load \/ Curate \/ Reconcile \/ Roas \/ Arpdau

NextRerun == Next \/ Restart

Spec == Init /\ [][Next]_vars

SpecCurate == InitCurate /\ [][Next]_vars

SpecMetrics == InitMetrics /\ [][Next]_vars

SpecWindow == InitWindow /\ [][Next]_vars

SpecInputs == InitInputs /\ [][Next]_vars

SpecRerun == InitRerun /\ [][NextRerun]_vars

SpecApi == InitApi /\ [][NextApi]_vars

----------------------------------------------------------------------------
(* Properties of the reconciliation.                                       *)

ReconciliationDone == pc \in {"roas", "arpdau", "done"}

MatchedDetails == {i \in 1..Len(details) : details[i].type = "matched"}
AfOnlyDetails == {i \in 1..Len(details) : details[i].type = "af_only"}
ConfirmedOnlyDetails == {i \in 1..Len(details) : details[i].type = "confirmed_only"}

(* The details a curated row, or a confirmed row, appears in.              *)
DetailsOfPurchase(p) ==
    {i \in MatchedDetails \cup AfOnlyDetails : details[i].p_idx = p.idx}

MatchesOfConfirmed(c) == {i \in MatchedDetails : details[i].c_idx = c.idx}

OnlyOfConfirmed(c) == {i \in ConfirmedOnlyDetails : details[i].c_idx = c.idx}

(* C1: in every reconciliation run each confirmed record is the confirmed  *)
(* side of at most one matched record; a second curated purchase within    *)
(* 10 minutes of an already claimed confirmed record is not matched to it. *)
C1_ConfirmedClaimedOnce ==
    ReconciliationDone =>
        \A i \in 1..Len(confirmed) :
            Cardinality(MatchesOfConfirmed(confirmed[i])) <= 1

(* C2: the details partition the inputs: every curated purchase has        *)
(* exactly one detail (matched or af_only) and every confirmed record is   *)
(* accounted for exactly once, as the confirmed side of one matched record *)
(* or as one confirmed_only record.                                        *)
C2_DetailsPartitionInputs ==
    ReconciliationDone =>
        /\ \A i \in 1..Len(purchases) :
              Cardinality(DetailsOfPurchase(purchases[i])) = 1
        /\ \A i \in 1..Len(confirmed) :
              Cardinality(MatchesOfConfirmed(confirmed[i]))
                + Cardinality(OnlyOfConfirmed(confirmed[i])) = 1
        /\ Len(details) = Cardinality(MatchedDetails) + Cardinality(AfOnlyDetails)
                            + Cardinality(ConfirmedOnlyDetails)

(* C3: each summary count equals the number of details of its type in the  *)
(* report, matched + af_only is the number of curated purchases, and the   *)
(* three counts add up to the curated purchases plus the confirmed records *)
(* no curated purchase claimed.                                            *)
ReportTypeCount(t) ==
    LET ds == reports["reconciliation.json"].details
    IN  Cardinality({i \in 1..Len(ds) : ds[i].type = t})

UnclaimedConfirmed ==
    {i \in 1..Len(confirmed) : MatchesOfConfirmed(confirmed[i]) = {}}

C3_SummaryCounts ==
    ReconciliationDone =>
        LET s == reports["reconciliation.json"].summary
        IN  /\ s.matched = ReportTypeCount("matched")
            /\ s.af_only = ReportTypeCount("af_only")
            /\ s.confirmed_only = ReportTypeCount("confirmed_only")
            /\ s.matched + s.af_only = Len(purchases)
            /\ s.matched + s.af_only + s.confirmed_only
                  = Len(purchases) + Cardinality(UnclaimedConfirmed)

C3_Witness ==
    /\ ReconciliationDone
    /\ reports["reconciliation.json"].summary.matched = 1
    /\ reports["reconciliation.json"].summary.af_only = 1
    /\ reports["reconciliation.json"].summary.confirmed_only = 1

(* The time distance, in minutes, between two timestamp strings that both  *)
(* parse.                                                                  *)
Gap(s, t) ==
    IF ToDatetime(s) >= ToDatetime(t) THEN ToDatetime(s) - ToDatetime(t)
    ELSE ToDatetime(t) - ToDatetime(s)

Parses(s) == ToDatetime(s) # NaT

(* The confirmed rows sharing the identity of a curated row, and those of  *)
(* them whose distance to it is defined.                                   *)
SameIdentity(p) ==
    {j \in 1..Len(confirmed) : confirmed[j].appsflyer_id = p.appsflyer_id}

Comparable(p) ==
    {j \in SameIdentity(p) :
        Parses(p.event_time_utc) /\ Parses(confirmed[j].event_time_utc)}

GapTo(p, j) == Gap(p.event_time_utc, confirmed[j].event_time_utc)

(* C4: a curated purchase is af_only (source_only) when no confirmed       *)
(* record shares its identity; otherwise it is af_only when the minimum    *)
(* time distance to the confirmed records of its identity exceeds 10       *)
(* minutes and matched when that minimum is at most 10 minutes.            *)
C4_Classification ==
    ReconciliationDone =>
        \A i \in 1..Len(purchases) :
            LET p == purchases[i]
            IN  /\ DetailsOfPurchase(p) # {}
                /\ \A d \in DetailsOfPurchase(p) :
                      /\ SameIdentity(p) = {} => details[d].type = "af_only"
                      /\ Comparable(p) # {} =>
                            IF \A j \in Comparable(p) : GapTo(p, j) > 10
                            THEN details[d].type = "af_only"
                            ELSE details[d].type = "matched"

C4_Witness ==
    /\ ReconciliationDone
    /\ \E i \in MatchedDetails :
          Gap(details[i].af_event_time_utc, details[i].cf_event_time_utc) = 10
    /\ \E i \in 1..Len(purchases) :
          /\ SameIdentity(purchases[i]) = {}
          /\ \E d \in DetailsOfPurchase(purchases[i]) : details[d].type = "af_only"

(* C5: a matched record reports the timestamp of a confirmed record of the *)
(* same identity at the minimum time distance from the curated purchase,   *)
(* and of several equally near ones the earliest in confirmed input order. *)
Nearest(p) ==
    CHOOSE j \in Comparable(p) :
        /\ \A k \in Comparable(p) : GapTo(p, j) <= GapTo(p, k)
        /\ \A k \in Comparable(p) : k < j => GapTo(p, j) < GapTo(p, k)

C5_NearestConfirmed ==
    ReconciliationDone =>
        \A i \in 1..Len(purchases) :
            \A d \in DetailsOfPurchase(purchases[i]) :
                details[d].type = "matched" =>
                    /\ Comparable(purchases[i]) # {}
                    /\ details[d].cf_event_time_utc
                          = confirmed[Nearest(purchases[i])].event_time_utc
                    /\ details[d].c_idx = confirmed[Nearest(purchases[i])].idx

C5_Witness ==
    /\ ReconciliationDone
    /\ \E i \in 1..Len(purchases) :
          /\ \E j, k \in Comparable(purchases[i]) :
                /\ j < k
                /\ GapTo(purchases[i], j) = GapTo(purchases[i], k)
                /\ confirmed[j].event_time_utc # confirmed[k].event_time_utc
                /\ \E d \in DetailsOfPurchase(purchases[i]) :
                      /\ details[d].type = "matched"
                      /\ details[d].cf_event_time_utc = confirmed[j].event_time_utc

(* C6: an unparseable timestamp is not fatal and is left out of the        *)
(* matching: a curated purchase with one is af_only, a confirmed record    *)
(* with one is never matched and ends as confirmed_only, and the run goes  *)
(* on to the later stages instead of exiting.                              *)
UnparseablePurchases ==
    {i \in 1..Len(purchases) : ~Parses(purchases[i].event_time_utc)}

UnparseableConfirmed ==
    {i \in 1..Len(confirmed) : ~Parses(confirmed[i].event_time_utc)}

UnparseableInput ==
    \/ \E i \in 1..Len(data["purchases_raw.csv"].rows) :
          ~Parses(data["purchases_raw.csv"].rows[i].event_time_utc)
    \/ \E i \in 1..Len(data["confirmed_purchases.csv"].rows) :
          ~Parses(data["confirmed_purchases.csv"].rows[i].event_time_utc)

C6_UnparseableTimestamps ==
    /\ UnparseableInput => pc # "failed"
    /\ ReconciliationDone =>
          /\ \A i \in UnparseablePurchases :
                /\ DetailsOfPurchase(purchases[i]) # {}
                /\ \A d \in DetailsOfPurchase(purchases[i]) :
                      details[d].type = "af_only"
          /\ \A i \in UnparseableConfirmed :
                /\ MatchesOfConfirmed(confirmed[i]) = {}
                /\ Cardinality(OnlyOfConfirmed(confirmed[i])) = 1
                /\ confirmed[i].idx \notin matched_c_indices
    /\ pc \in {"arpdau", "done"} =>
          \A i \in UnparseablePurchases :
              \A k \in 1..Len(rev_daily) : rev_daily[k].date # purchases[i].date

C6_Witness ==
    /\ pc = "done"
    /\ UnparseablePurchases # {}
    /\ UnparseableConfirmed # {}
    /\ \E i \in UnparseablePurchases : \E j \in UnparseableConfirmed :
          purchases[i].appsflyer_id = confirmed[j].appsflyer_id
    /\ "arpdau_d1.json" \in DOMAIN reports

----------------------------------------------------------------------------
(* Properties of the curation.                                             *)

CurationDone == pc \in {"reconcile", "roas", "arpdau", "done"}

(* The rows of purchases_raw.csv as read, before any normalization.        *)
InputRows == data["purchases_raw.csv"].rows

(* The position in the input of the raw row a curated row comes from.      *)
Origin(r) == r.idx + 1

(* A raw row passes the curation filter.                                   *)
RawPasses(k) ==
    /\ StrLower(InputRows[k].status) = "success"
    /\ StrLower(InputRows[k].event_name) = "purchase"
    /\ purchases_raw[k].revenue_usd > 0

(* Two raw rows agree on identity, timestamp, event name and revenue.      *)
SameKey(k, m) ==
    /\ InputRows[k].appsflyer_id = InputRows[m].appsflyer_id
    /\ InputRows[k].event_time_utc = InputRows[m].event_time_utc
    /\ InputRows[k].event_name = InputRows[m].event_name
    /\ purchases_raw[k].revenue_usd = purchases_raw[m].revenue_usd

(* C7: after curation no two curated rows share a composite key, and of    *)
(* every group of raw rows that pass the filter and agree on identity,     *)
(* timestamp, event name and revenue exactly one is in the curated output. *)
C7_OnePerCompositeKey ==
    CurationDone =>
        /\ \A i, j \in 1..Len(purchases) :
              i # j => purchases[i].composite # purchases[j].composite
        /\ \A k \in 1..Len(InputRows) :
              RawPasses(k) =>
                Cardinality({i \in 1..Len(purchases) :
                               SameKey(Origin(purchases[i]), k)}) = 1

C7_Witness ==
    /\ CurationDone
    /\ \E k, m \in 1..Len(InputRows) :
          k # m /\ RawPasses(k) /\ RawPasses(m) /\ SameKey(k, m)

ChargebacksOf(r) ==
    {k \in 1..Len(InputRows) :
        /\ StrLower(InputRows[k].status) = "chargeback"
        /\ InputRows[k].receipt_id # NaN
        /\ InputRows[k].receipt_id = r.receipt_id}

(* C9: chargeback zeroing keeps every curated row, changes no field other  *)
(* than revenue_usd, and changes revenue_usd only on curated rows whose    *)
(* receipt id is that of a chargeback row; a curated row with no receipt   *)
(* id keeps its revenue.                                                   *)
C9_ChargebackFramePreserving ==
    CurationDone =>
        /\ \A k \in 1..Len(InputRows) :
              RawPasses(k) =>
                \E i \in 1..Len(purchases) : SameKey(Origin(purchases[i]), k)
        /\ \A i \in 1..Len(purchases) :
              LET r == purchases[i]
                  raw == purchases_raw[Origin(r)]
              IN  /\ \A f \in (DOMAIN raw) \ {"revenue_usd"} : r[f] = raw[f]
                  /\ r.revenue_usd # raw.revenue_usd =>
                        /\ "receipt_id" \in ColumnsOf("purchases_raw.csv")
                        /\ ChargebacksOf(r) # {}
                  /\ ("receipt_id" \in ColumnsOf("purchases_raw.csv")
                        /\ r.receipt_id = NaN) =>
                        r.revenue_usd = raw.revenue_usd

(* C10: every curated row whose receipt id is on a chargeback row of the   *)
(* unfiltered raw batch has revenue_usd = 0 in the curated output and in   *)
(* every later stage, although the filter removed the chargeback row.      *)
ChargedBack == {i \in 1..Len(purchases) :
                    /\ "receipt_id" \in ColumnsOf("purchases_raw.csv")
                    /\ ChargebacksOf(purchases[i]) # {}}

(* The revenue the curated rows of a (date, campaign) pair bring in when   *)
(* the charged-back ones count as 0.                                       *)
RECURSIVE RevenueLeft(_, _, _)
RevenueLeft(i, date, campaign) ==
    IF i = 0 THEN 0
    ELSE RevenueLeft(i - 1, date, campaign)
            + (IF /\ purchases[i].date = date
                  /\ purchases[i].campaign_norm = campaign
                  /\ i \notin ChargedBack
               THEN purchases_raw[Origin(purchases[i])].revenue_usd ELSE 0)

C10_ChargebackRevenueZero ==
    /\ CurationDone =>
          \A i \in ChargedBack :
              /\ purchases[i].revenue_usd = 0
              /\ reports["purchases_curated.csv"][i].revenue_usd = 0
              /\ \A k \in 1..Len(InputRows) :
                    k \in ChargebacksOf(purchases[i]) =>
                        \A j \in 1..Len(purchases) : Origin(purchases[j]) # k
    /\ ReconciliationDone =>
          \A i \in ChargedBack :
              \A d \in DetailsOfPurchase(purchases[i]) : details[d].revenue_usd = 0
    /\ pc \in {"arpdau", "done"} =>
          \A k \in 1..Len(rev_daily) :
              rev_daily[k].revenue_usd
                <= RevenueLeft(Len(purchases), rev_daily[k].date, rev_daily[k].campaign)

C10_Witness ==
    /\ pc = "done"
    /\ ChargedBack # {}
    /\ \E i \in ChargedBack :
          /\ purchases_raw[Origin(purchases[i])].revenue_usd > 0
          /\ \E k \in 1..Len(rev_daily) :
                /\ rev_daily[k].date = purchases[i].date
                /\ rev_daily[k].revenue_usd = 0

----------------------------------------------------------------------------
(* Properties of the metrics.                                              *)

RoasDone == pc \in {"arpdau", "done"}

(* The cost rows of costs_daily.csv as read.                               *)
CostInput == data["costs_daily.csv"].rows

(* The cost rows of a (date, normalized campaign) pair.                    *)
CostRowsOf(date, campaign) ==
    {k \in 1..Len(CostInput) :
        /\ CostInput[k].date = date
        /\ StrUpper(StrStrip(CostInput[k].campaign)) = campaign}

(* The sum of the revenues of the first i curated rows that fall on the    *)
(* pair.                                                                   *)
RECURSIVE CuratedRevenue(_, _, _)
CuratedRevenue(i, date, campaign) ==
    IF i = 0 THEN 0
    ELSE CuratedRevenue(i - 1, date, campaign)
            + (IF /\ purchases[i].date = date
                  /\ purchases[i].campaign_norm = campaign
               THEN purchases[i].revenue_usd ELSE 0)

(* The rows of the ROAS table of a pair.                                   *)
RoasRowsOf(date, campaign) ==
    {r \in 1..Len(roas) : roas[r].date = date /\ roas[r].campaign = campaign}

C12_MissingCostGivesZero ==
    /\ RoasDone =>
          /\ \A r \in 1..Len(roas) :
                IF CostRowsOf(roas[r].date, roas[r].campaign) = {}
                THEN roas[r].ad_cost_usd = FNaN /\ roas[r].roas = FromInt(0)
                ELSE roas[r].ad_cost_usd # FNaN
          /\ \A k \in 1..Len(rev_daily) :
                RoasRowsOf(rev_daily[k].date, rev_daily[k].campaign) # {}
    /\ pc = "failed" =>
          \E k, m \in 1..Len(CostInput) :
              /\ k # m
              /\ CostInput[k].date = CostInput[m].date
              /\ StrUpper(StrStrip(CostInput[k].campaign))
                    = StrUpper(StrStrip(CostInput[m].campaign))

C12_Witness ==
    /\ pc = "done"
    /\ \E r \in 1..Len(roas) :
          /\ CostRowsOf(roas[r].date, roas[r].campaign) = {}
          /\ roas[r].revenue_usd > 0
          /\ roas[r].roas = FromInt(0)
    /\ \E r \in 1..Len(roas) : roas[r].roas.n > 0

(* The distinct dates of the revenue table, and those after a date.        *)
RevenueDates == {rev_daily[k].date : k \in 1..Len(rev_daily)}

DatesAfter(d) == {x \in RevenueDates : DateRank(x) > DateRank(d)}

(* C13: D-1 is the date of the revenue table with exactly one later date   *)
(* when the table has two dates or more, and its only date otherwise; the  *)
(* ROAS D-1 artifact holds the rows of the ROAS table dated D-1, in table  *)
(* order, and no other row.                                                *)
C13_D1Selection ==
    (RoasDone /\ rev_daily # <<>>) =>
        /\ d1 \in RevenueDates
        /\ Cardinality(DatesAfter(d1))
              = (IF Cardinality(RevenueDates) >= 2 THEN 1 ELSE 0)
        /\ LET out == reports["roas_d1.json"]
               at == {r \in 1..Len(roas) : roas[r].date = d1}
           IN  /\ Len(out) = Cardinality(at)
               /\ \A o \in 1..Len(out) :
                     \E r \in at :
                         /\ Cardinality({x \in at : x < r}) = o - 1
                         /\ out[o].date = d1
                         /\ out[o].campaign = roas[r].campaign
                         /\ out[o].revenue_usd = roas[r].revenue_usd
                         /\ IsFinite(roas[r].roas) => out[o].roas = roas[r].roas

C13_Witness ==
    /\ pc = "done"
    /\ Cardinality(RevenueDates) = 3
    /\ Cardinality(DatesAfter(d1)) = 1
    /\ \E x \in RevenueDates : DateRank(x) < DateRank(d1)
    /\ Len(reports["roas_d1.json"]) >= 1

(* The dates up to d on which a campaign has a row of the ROAS table, and  *)
(* the last Window of them.                                                *)
HistDates(campaign, d) ==
    {roas[r].date : r \in {x \in 1..Len(roas) :
                              /\ roas[x].campaign = campaign
                              /\ DateRank(roas[x].date) <= DateRank(d)}}

WindowDates(campaign, d) ==
    {x \in HistDates(campaign, d) :
        Cardinality({y \in HistDates(campaign, d) : DateRank(y) > DateRank(x)})
            < Window}

WindowRoas(campaign, d) ==
    {r \in 1..Len(roas) : /\ roas[r].campaign = campaign
                          /\ roas[r].date \in WindowDates(campaign, d)}

(* The sum of the roas of the first i rows of the ROAS table that are in   *)
(* the set rows.                                                           *)
RECURSIVE RoasSum(_, _)
RoasSum(i, rows) ==
    IF i = 0 THEN FromInt(0)
    ELSE FAdd(RoasSum(i - 1, rows), IF i \in rows THEN roas[i].roas ELSE FromInt(0))

(* C14: there is one anomaly record for every campaign with a ROAS row on  *)
(* D-1; its avg7 times the number of ROAS rows of the campaign on its last *)
(* 7 dates up to D-1 is the sum of the roas of those rows, and its roas_d1 *)
(* is the roas of the campaign on D-1.                                     *)
C14_TrailingWindowMean ==
    (RoasDone /\ roas # <<>>) =>
        /\ \A r \in 1..Len(roas) :
              roas[r].date = d1 =>
                Cardinality({k \in 1..Len(anomalies) :
                                anomalies[k].campaign = roas[r].campaign}) = 1
        /\ \A k \in 1..Len(anomalies) :
              LET a == anomalies[k]
                  rows == WindowRoas(a.campaign, d1)
                  total == RoasSum(Len(roas), rows)
              IN  /\ a.date = d1
                  /\ \E r \in rows : roas[r].date = d1 /\ roas[r].roas = a.roas_d1
                  /\ a.avg7.d > 0
                  /\ a.avg7.n * Cardinality(rows) * total.d = total.n * a.avg7.d

(* Campaign A with rows on D-1, on eight dates or more up to D-1 and on a  *)
(* date after D-1, beside a row of campaign B before D-1.                  *)
C14_Witness ==
    /\ pc = "done"
    /\ \E k \in 1..Len(anomalies) :
          /\ anomalies[k].campaign = "CAMPAIGN_A"
          /\ Cardinality(HistDates("CAMPAIGN_A", d1)) > Window
          /\ Cardinality(WindowRoas("CAMPAIGN_A", d1)) = Window
    /\ \E r \in 1..Len(roas) :
          roas[r].campaign = "CAMPAIGN_A" /\ DateRank(roas[r].date) > DateRank(d1)
    /\ \E r \in 1..Len(roas) :
          /\ roas[r].campaign = "CAMPAIGN_B"
          /\ DateRank(roas[r].date) < DateRank(d1)
          /\ roas[r].roas.n > 0

(* roas_d1 < 0.5 * avg7 on floats that are numbers, inf or -inf.           *)
BelowHalf(val, avg7) ==
    IF avg7.d = 0 THEN val # avg7
    ELSE IF val.d = 0 THEN val.n < 0
         ELSE 2 * val.n * avg7.d < avg7.n * val.d

(* C15: the anomaly flag of a record is true exactly when avg7 > 0 and     *)
(* roas_d1 < 0.5 * avg7.                                                   *)
C15_AnomalyFlag ==
    RoasDone =>
        \A k \in 1..Len(anomalies) :
            anomalies[k].anomaly
                <=> (anomalies[k].avg7.n > 0
                       /\ BelowHalf(anomalies[k].roas_d1, anomalies[k].avg7))

(* One record flagged, beside one with avg7 <= 0 and roas_d1 below half of *)
(* it that is not flagged.                                                 *)
C15_Witness ==
    /\ pc = "done"
    /\ \E k \in 1..Len(anomalies) : anomalies[k].anomaly
    /\ \E k \in 1..Len(anomalies) :
          /\ anomalies[k].avg7.n <= 0
          /\ BelowHalf(anomalies[k].roas_d1, anomalies[k].avg7)
          /\ ~anomalies[k].anomaly

(* The sessions of sessions.csv as read, those of a date, and the users    *)
(* seen on a date.                                                         *)
SessionInput == data["sessions.csv"].rows

SessionsOn(date) ==
    {k \in 1..Len(SessionInput) :
        StrfDate(ToDatetime(SessionInput[k].event_timestamp_utc)) = date}

UsersOn(date) ==
    {SessionInput[k].user_id : k \in SessionsOn(date)} \ {NaN}

----------------------------------------------------------------------------
(* Properties of the artifacts and of the failures.                        *)

(* The artifacts of the reports directory.                                 *)
Artifacts == DOMAIN reports

(* C17: a run that exits with success has written six artifacts.           *)
C17_SixArtifacts ==
    pc = "done" => Cardinality(Artifacts) = 6

MetricArtifacts == {"roas_d1.json", "roas_anomaly.json", "arpdau_d1.json"}

(* No curated row has a timestamp that parses: the revenue table is empty. *)
NoDatedPurchase ==
    \A i \in 1..Len(purchases) : ~Parses(purchases[i].event_time_utc)

RequiredColumns(file) ==
    CASE file = "purchases_raw.csv" ->
            {"appsflyer_id", "event_time_utc", "event_name", "revenue_usd",
             "campaign", "status"}
      [] file = "confirmed_purchases.csv" ->
            {"appsflyer_id", "event_time_utc", "revenue_usd"}
      [] file = "costs_daily.csv" -> {"date", "campaign", "ad_cost_usd"}
      [] file = "sessions.csv" -> {"event_timestamp_utc", "user_id"}

Unreadable == {f \in Range(InputFiles) : data[f].state # "ok"}

LacksColumn ==
    {f \in Range(InputFiles) :
        data[f].state = "ok" /\ ~(RequiredColumns(f) \subseteq data[f].columns)}

(* C19: a run whose inputs hold an absent, empty or unparseable file, or   *)
(* a file without a required column, never finishes with success and      *)
(* never has an artifact written.                                          *)
C19_NoOutputOnInputError ==
    (Unreadable # {} \/ LacksColumn # {}) =>
        /\ pc # "done"
        /\ Artifacts = {}

(* C20: a run whose files are all readable and of which one lacks a        *)
(* required column never finishes with success, and when it has failed the *)
(* failure is the missing-column one.                                      *)
C20_MissingColumnFails ==
    (Unreadable = {} /\ LacksColumn # {}) =>
        /\ pc # "done"
        /\ pc = "failed" => error = "missing_column"

(* The earlier runs that finished with success on the inputs of this run,  *)
(* and on other inputs.                                                    *)
SameInputRuns == {k \in 1..Len(runs) : runs[k].ok /\ runs[k].data = data}

OtherInputRuns == {k \in 1..Len(runs) : runs[k].ok /\ runs[k].data # data}

(* An artifact row holds the cells of a frame row.                         *)
RowOf(out, row) == \A f \in DOMAIN out : out[f] = row[f]

(* C21: when a run has finished with success its artifacts are those every *)
(* earlier successful run on the same inputs left, and each of them holds  *)
(* the frame this run computed and nothing else: the curated rows, the     *)
(* summary and details, the ROAS rows and the ARPDAU rows of D-1, and the  *)
(* anomaly records.                                                        *)
C21_ArtifactsFromInputsOnly ==
    pc = "done" =>
        /\ \A k \in SameInputRuns : runs[k].reports = reports
        /\ Len(reports["purchases_curated.csv"]) = Len(purchases)
        /\ \A i \in 1..Len(purchases) :
              RowOf(reports["purchases_curated.csv"][i], purchases[i])
        /\ reports["reconciliation.json"].summary = summary
        /\ Len(reports["reconciliation.json"].details) = Len(details)
        /\ \A i \in 1..Len(details) :
              RowOf(reports["reconciliation.json"].details[i], details[i])
        /\ Len(reports["roas_d1.json"])
              = Cardinality({r \in 1..Len(roas) : roas[r].date = d1})
        /\ \A o \in 1..Len(reports["roas_d1.json"]) :
              \E r \in 1..Len(roas) :
                  /\ reports["roas_d1.json"][o].date = roas[r].date
                  /\ reports["roas_d1.json"][o].campaign = roas[r].campaign
                  /\ reports["roas_d1.json"][o].revenue_usd = roas[r].revenue_usd
        /\ reports["roas_anomaly.json"] = anomalies
        /\ Len(reports["arpdau_d1.json"])
              = Cardinality({r \in 1..Len(arpdau) : arpdau[r].date = d1})
        /\ \A o \in 1..Len(reports["arpdau_d1.json"]) :
              \E r \in 1..Len(arpdau) :
                  /\ reports["arpdau_d1.json"][o].date = arpdau[r].date
                  /\ reports["arpdau_d1.json"][o].campaign = arpdau[r].campaign
                  /\ reports["arpdau_d1.json"][o].revenue = arpdau[r].revenue

(* A third run with purchases, after a run on the same inputs and a run on *)
(* other inputs that left other artifacts.                                 *)
C21_Witness ==
    /\ pc = "done"
    /\ purchases # <<>>
    /\ SameInputRuns # {}
    /\ \E k \in OtherInputRuns :
          /\ runs[k].reports # reports
          /\ runs[k].reports["roas_d1.json"] # <<>>

-----------------------------------------------------------------------------
(* Properties of POST /earn.                                               *)

Answered == \A r \in DOMAIN earn : earn[r].at = "answered"

Successful == {r \in DOMAIN earn : earn[r].status = 200}

RECURSIVE SumAmounts(_)
SumAmounts(S) ==
    IF S = {} THEN 0
    ELSE LET r == CHOOSE x \in S : TRUE
         IN  earn[r].amount + SumAmounts(S \ {r})

(* C22: once every request is answered the balance exceeds the initial     *)
(* balance, 0, by the sum of the amounts of the successful requests.       *)
C22_NoEarnLost ==
    Answered => balance = SumAmounts(Successful)

(* C23: once every request is answered, the requests that carry the same   *)
(* Idempotency-Key have the same response, and the key's amount is in the  *)
(* balance once.                                                           *)
SameKey23(r, o) == earn[r].key # "none" /\ earn[r].key = earn[o].key

FirstOfKey == {r \in Successful :
                  \A o \in Successful : SameKey23(r, o) => r <= o}

C23_IdempotencyKeyCreditsOnce ==
    (Answered /\ for_update) =>
        /\ \A r, o \in Successful :
              SameKey23(r, o) => earn[r].response = earn[o].response
        /\ balance = SumAmounts(FirstOfKey)

-----------------------------------------------------------------------------
(* Properties of the stages.                                               *)

NextStage ==
    [load |-> "curate", curate |-> "reconcile", reconcile |-> "roas",
     roas |-> "arpdau", arpdau |-> "done"]

StageArtifacts ==
    [load |-> {}, curate |-> {"purchases_curated.csv"},
     reconcile |-> {"reconciliation.json"},
     roas |-> {"roas_d1.json", "roas_anomaly.json"},
     arpdau |-> {"arpdau_d1.json"}]

(* One step of a run: a stage that has not failed ends in the next stage   *)
(* or in the exit with status 1; the artifacts of the other stages stay as *)
(* they are, and the failing stage writes none.                            *)
StageStep ==
    /\ pc \in DOMAIN NextStage
    /\ error = "none"
    /\ pc' \in {NextStage[pc], "failed"}
    /\ (pc' = "failed") = (error' # "none")
    /\ pc' = "failed" => reports' = reports
    /\ DOMAIN reports \subseteq DOMAIN reports'
    /\ DOMAIN reports' \ DOMAIN reports \subseteq StageArtifacts[pc]
    /\ \A f \in DOMAIN reports \ StageArtifacts[pc] : reports'[f] = reports[f]

(* C24: every step of the run is the end of the current stage, in the      *)
(* order load, curation, reconciliation, ROAS, ARPDAU: it goes to the next *)
(* stage or exits with status 1, after the exit no stage runs and nothing  *)
(* is written, and the artifacts of the completed stages are left in place.*)
C24_StagesInOrderFailFast == [][StageStep]_vars

(* The ROAS stage has failed after the curation and the reconciliation of  *)
(* a purchase wrote their artifacts.                                       *)
C24_Witness ==
    /\ pc = "failed"
    /\ error # "none"
    /\ purchases # <<>>
    /\ Artifacts = {"purchases_curated.csv", "reconciliation.json"}

-----------------------------------------------------------------------------
(* Properties of the curation, continued.                                  *)

(* The first raw row in the input that passes the filter and has the       *)
(* composite key of raw row k.                                             *)
FirstWithKey(k) ==
    CHOOSE m \in 1..Len(InputRows) :
        /\ RawPasses(m) /\ SameKey(m, k)
        /\ \A n \in 1..(m - 1) : ~(RawPasses(n) /\ SameKey(n, k))

(* C25: of the raw rows that pass the filter and share a composite key the *)
(* curated one is the first in the input, so that the curated row has the  *)
(* campaign and the receipt id of that first row.                          *)
C25_FirstInInputSurvives ==
    CurationDone =>
        \A i \in 1..Len(purchases) :
            LET first == FirstWithKey(Origin(purchases[i]))
            IN  /\ Origin(purchases[i]) = first
                /\ \A f \in {"campaign", "receipt_id"} \cap DOMAIN purchases_raw[first] :
                      purchases[i][f] = purchases_raw[first][f]

(* The curated rows whose revenue the chargeback zeroing set to 0: the     *)
(* filter lets no row with revenue 0 through.                              *)
ZeroedRows == {i \in 1..Len(purchases) : purchases[i].revenue_usd = 0}

(* C26: the count in the curator's log line on chargebacks is the number   *)
(* of curated rows whose revenue was set to 0.                             *)
C26_ZeroedCountLogged ==
    CurationDone =>
        \A l \in 1..Len(zeroed_log) : zeroed_log[l] = Cardinality(ZeroedRows)

-----------------------------------------------------------------------------
(* Properties of the metrics, continued.                                   *)

(* C27: a row of the ROAS table whose ad cost is that of a cost row of its *)
(* pair with ad cost zero or below has roas 0, whatever its revenue.       *)
C27_NonPositiveCostGivesZero ==
    RoasDone =>
        \A r \in 1..Len(roas) :
            \A k \in CostRowsOf(roas[r].date, roas[r].campaign) :
                (/\ CostInput[k].ad_cost_usd <= 0
                 /\ roas[r].ad_cost_usd = FromInt(CostInput[k].ad_cost_usd)) =>
                    roas[r].roas = FromInt(0)

(* C29: the ROAS table has one row for each row of the revenue table and   *)
(* no other, whatever the cost table holds, and no run with readable       *)
(* inputs ends in the handler of the ROAS and anomaly block.               *)
C29_OneRoasRowPerPair ==
    /\ RoasDone =>
          /\ Len(roas) = Len(rev_daily)
          /\ \A k \in 1..Len(rev_daily) :
                Cardinality(RoasRowsOf(rev_daily[k].date, rev_daily[k].campaign)) = 1
    /\ ~(pc = "failed" /\ error = "exception")

(* The campaigns with a row of the ROAS table on D-1, and those of the     *)
(* anomaly records.                                                        *)
CampaignsOnD1 == {roas[r].campaign : r \in {x \in 1..Len(roas) : roas[x].date = d1}}

AnomalyCampaigns == {anomalies[k].campaign : k \in 1..Len(anomalies)}

(* C28: the campaigns of the anomaly records are the campaigns with a ROAS *)
(* row on D-1, each once; every record is dated D-1 and its roas_d1 is the *)
(* roas of its campaign's row on D-1; the anomaly artifact has a record    *)
(* for the same campaigns.                                                 *)
C28_AnomalyRecordsAreD1Campaigns ==
    RoasDone =>
        IF roas = <<>> THEN anomalies = <<>>
        ELSE /\ AnomalyCampaigns = CampaignsOnD1
             /\ Len(anomalies) = Cardinality(CampaignsOnD1)
             /\ \A k \in 1..Len(anomalies) :
                   /\ anomalies[k].date = d1
                   /\ \A r \in 1..Len(roas) :
                         (roas[r].date = d1 /\ roas[r].campaign = anomalies[k].campaign)
                             => anomalies[k].roas_d1 = roas[r].roas
             /\ Len(reports["roas_anomaly.json"]) = Len(anomalies)
             /\ \A k \in 1..Len(anomalies) :
                   /\ reports["roas_anomaly.json"][k].campaign = anomalies[k].campaign
                   /\ reports["roas_anomaly.json"][k].date = d1

(* A campaign with a record, beside a campaign whose ROAS rows are all     *)
(* before D-1 and has none, while rows after D-1 exist.                    *)
C28_Witness ==
    /\ pc = "done"
    /\ anomalies # <<>>
    /\ \E r \in 1..Len(roas) :
          /\ roas[r].campaign \notin AnomalyCampaigns
          /\ DateRank(roas[r].date) < DateRank(d1)
          /\ roas[r].roas.n > 0
    /\ \E r \in 1..Len(roas) : DateRank(roas[r].date) > DateRank(d1)

(* The (date, campaign) keys of the rows of an artifact.                   *)
KeysOf(name) ==
    {<<reports[name][o].date, reports[name][o].campaign>> : o \in 1..Len(reports[name])}

(* C30: in a finished run with a revenue table that is not empty, the D-1  *)
(* of the ARPDAU stage is the date of the anomaly records and of the rows  *)
(* of the ROAS D-1 artifact, and the ARPDAU D-1 artifact has the (date,    *)
(* campaign) keys of the ROAS D-1 artifact, the revenue pairs of D-1.      *)
C30_SameD1InBothStages ==
    (pc = "done" /\ rev_daily # <<>>) =>
        /\ \A k \in 1..Len(anomalies) : anomalies[k].date = d1
        /\ KeysOf("arpdau_d1.json") = KeysOf("roas_d1.json")
        /\ KeysOf("arpdau_d1.json")
              = {<<d1, rev_daily[k].campaign>> :
                    k \in {x \in 1..Len(rev_daily) : rev_daily[x].date = d1}}
        /\ KeysOf("arpdau_d1.json") # {}

(* D-1 is not the last date, its pair has no cost row, and neither D-1 nor *)
(* the last date has a session.                                            *)
C30_Witness ==
    /\ pc = "done"
    /\ DatesAfter(d1) # {}
    /\ \E o \in 1..Len(reports["roas_d1.json"]) :
          reports["roas_d1.json"][o].ad_cost_usd = JsonNull
    /\ \E o \in 1..Len(reports["arpdau_d1.json"]) :
          reports["arpdau_d1.json"][o].dau = JsonNull
    /\ \E k \in 1..Len(arpdau) :
          DateRank(arpdau[k].date) > DateRank(d1) /\ arpdau[k].dau = FNaN

====
